---- MODULE Spec2Model ----
(***************************************************************************)
(* Normalization pipeline of the Obsidian vault linter: frontmatter        *)
(* enforcement, formatting normalization, tag rules and wikilink           *)
(* normalization, each a function of a settings record and a string; the   *)
(* change reports that compare a document with its normalized form; and    *)
(* the commands of the plugin that run the pipeline over the files of a    *)
(* vault.                                                                  *)
(*                                                                         *)
(* A string is a sequence of one-character strings; the regular            *)
(* expressions of the source are modelled by scans that match exactly what *)
(* the expression matches (leftmost, greedy, global where the source has   *)
(* the g flag).                                                            *)
(***************************************************************************)
EXTENDS Integers, Sequences, FiniteSets, TLC

VARIABLES
    settings,   \* the VaultLinterSettings the rule modules were built with
    fileName,   \* name of the document being processed
    today,      \* the host clock: new Date().toISOString().split('T')[0]
    input,      \* the string, or the pair of strings, handed to the operation
    result,     \* what the last applied operation returned
    op,         \* the operation or command applied last ("init" before any)
    vault,      \* the host vault: its markdown files and the entry at 'Reports'
    activeFile, \* workspace.getActiveFile()
    editor,     \* the text in the editor of the active file
    run,        \* the locals of the command that is running
    notices,    \* the Notice objects shown so far
    saving,     \* the calls of saveSettings that wait for saveData
    built       \* the settings as they were when the rule modules were built

vars == <<settings, fileName, today, input, result, op,
          vault, activeFile, editor, run, notices, saving, built>>

\* the state of the host, which the rule modules never touch
hostVars == <<vault, activeFile, editor, run, notices, saving, built>>

----------------------------------------------------------------------------
(* Bounds of the model *)

MaxTagLen == 5
MaxFormatLen == 6
MaxWikilinkLen == 5
MaxContentLen == 5
MaxPipelineLen == 1
MaxFiles == 4
MaxReportTokens == 3
MaxConforming == 21
MaxChangedReports == 2
MaxScanLen == 8
MaxSaves == 1
MaxEditedFiles == 2

----------------------------------------------------------------------------
(* Characters and JavaScript string primitives *)

UpperCaseLetters ==
    <<"A","B","C","D","E","F","G","H","I","J","K","L","M",
      "N","O","P","Q","R","S","T","U","V","W","X","Y","Z">>

LowerCaseLetters ==
    <<"a","b","c","d","e","f","g","h","i","j","k","l","m",
      "n","o","p","q","r","s","t","u","v","w","x","y","z">>

Range(f) == { f[i] : i \in DOMAIN f }

Digits == {"0","1","2","3","4","5","6","7","8","9"}

\* the backtick character, which a TLA+ string literal cannot hold
Backtick == "<backtick>"

\* the characters the class \s matches, among those the model uses
Whitespace == {" ", "\t", "\n", "\r", "\f"}

toLowerCaseChar(c) ==
    IF c \in Range(UpperCaseLetters)
    THEN LowerCaseLetters[CHOOSE i \in DOMAIN UpperCaseLetters : UpperCaseLetters[i] = c]
    ELSE c

toUpperCaseChar(c) ==
    IF c \in Range(LowerCaseLetters)
    THEN UpperCaseLetters[CHOOSE i \in DOMAIN LowerCaseLetters : LowerCaseLetters[i] = c]
    ELSE c

toLowerCase(s) == [i \in 1..Len(s) |-> toLowerCaseChar(s[i])]

toUpperCase(s) == [i \in 1..Len(s) |-> toUpperCaseChar(s[i])]

slice(s, from) == SubSeq(s, from + 1, Len(s))

startsWith(s, p) == Len(s) >= Len(p) /\ SubSeq(s, 1, Len(p)) = p

endsWith(s, p) == Len(s) >= Len(p) /\ SubSeq(s, Len(s) - Len(p) + 1, Len(s)) = p

\* String.prototype.indexOf: the 0-based position of the first occurrence of
\* pat in s, or -1
indexOf(s, pat) ==
    LET hits == { i \in 0..(Len(s) - Len(pat)) : SubSeq(s, i + 1, i + Len(pat)) = pat }
    IN  IF hits = {} THEN -1 ELSE CHOOSE i \in hits : \A k \in hits : i <= k

\* the value null: a sequence that is no string
Null == <<"null">>

\* length of the longest prefix of s made of characters of the class cls
LeadingRun(s, cls) ==
    CHOOSE n \in 0..Len(s) :
        /\ \A i \in 1..n : s[i] \in cls
        /\ (n = Len(s) \/ s[n + 1] \notin cls)

\* length of the longest prefix of s made of characters outside cls
LeadingRunNot(s, cls) ==
    CHOOSE n \in 0..Len(s) :
        /\ \A i \in 1..n : s[i] \notin cls
        /\ (n = Len(s) \/ s[n + 1] \in cls)

\* length of the longest suffix of s made of characters of the class cls
TrailingRun(s, cls) ==
    CHOOSE n \in 0..Len(s) :
        /\ \A i \in (Len(s) - n + 1)..Len(s) : s[i] \in cls
        /\ (n = Len(s) \/ s[Len(s) - n] \notin cls)

trimStart(s) == slice(s, LeadingRun(s, Whitespace))

trimEnd(s) == SubSeq(s, 1, Len(s) - TrailingRun(s, Whitespace))

trim(s) == trimEnd(trimStart(s))

\* String.prototype.replace(/pat/g, rep) for a literal pattern pat
RECURSIVE ReplaceAll(_, _, _)
ReplaceAll(s, pat, rep) ==
    IF s = <<>> THEN <<>>
    ELSE IF startsWith(s, pat)
         THEN rep \o ReplaceAll(slice(s, Len(pat)), pat, rep)
         ELSE <<Head(s)>> \o ReplaceAll(Tail(s), pat, rep)

\* String.prototype.split on the separator characters seps
RECURSIVE split(_, _)
split(s, seps) ==
    LET n == LeadingRunNot(s, seps)
    IN  IF n = Len(s) THEN <<s>>
        ELSE <<SubSeq(s, 1, n)>> \o split(slice(s, n + 1), seps)

\* Array.prototype.join('')
RECURSIVE join(_)
join(words) == IF words = <<>> THEN <<>> ELSE Head(words) \o join(Tail(words))

\* s.replace(/\.md$/, '')
StripMdExtension(s) ==
    IF endsWith(s, <<".", "m", "d">>) THEN SubSeq(s, 1, Len(s) - 3) ELSE s

\* all strings over the alphabet cs of length at most n
StringsUpTo(cs, n) == UNION { [1..k -> cs] : k \in 0..n }

----------------------------------------------------------------------------
(* settings.ts *)

TagFormats == {"lowercase", "uppercase", "camelCase", "none"}

WikilinkStyles == {"shortest", "relative", "absolute"}

\* '---\ntitle: {{title}}\ndate: {{date}}\ntags: []\n---'
DefaultTemplate ==
    <<"-","-","-","\n","t","i","t","l","e",":"," ","{","{","t","i","t","l","e","}","}","\n",
      "d","a","t","e",":"," ","{","{","d","a","t","e","}","}","\n",
      "t","a","g","s",":"," ","[","]","\n","-","-","-">>

DEFAULT_SETTINGS ==
    [ enforceFrontmatter |-> TRUE,
      frontmatterTemplate |-> DefaultTemplate,
      normalizeFormatting |-> TRUE,
      endWithNewline |-> TRUE,
      removeMultipleBlankLines |-> TRUE,
      enforceTagRules |-> FALSE,
      tagFormat |-> "lowercase",
      safeWikilinkInsertion |-> TRUE,
      wikilinkStyle |-> "shortest" ]

----------------------------------------------------------------------------
(* tags.ts: TagRules *)

\* the class [a-zA-Z0-9_\-\/] of the tag pattern
TagChars == Range(LowerCaseLetters) \cup Range(UpperCaseLetters) \cup Digits \cup {"_", "-", "/"}

\* the separators of tag.split(/[_\-\/]/)
TagSeparators == {"_", "-", "/"}

\* the callback of .map in the camelCase case
camelCaseWord(word, index) ==
    IF index = 0 THEN toLowerCase(word)
    ELSE IF word = <<>> THEN <<>>
         ELSE <<toUpperCaseChar(word[1])>> \o toLowerCase(Tail(word))

normalizeTag(st, tag) ==
    IF ~st.enforceTagRules THEN tag
    ELSE CASE st.tagFormat = "lowercase" -> toLowerCase(tag)
           [] st.tagFormat = "uppercase" -> toUpperCase(tag)
           [] st.tagFormat = "camelCase" ->
                LET words == split(tag, TagSeparators)
                IN  join([i \in 1..Len(words) |-> camelCaseWord(words[i], i - 1)])
           [] OTHER -> tag

\* a variant without the g flag: only the first match is replaced
RECURSIVE ReplaceTags_firstOnly(_, _)
ReplaceTags_firstOnly(st, s) ==
    IF s = <<>> THEN <<>>
    ELSE LET n == LeadingRun(Tail(s), TagChars)
         IN  IF Head(s) = "#" /\ n >= 1
             THEN <<"#">> \o normalizeTag(st, SubSeq(s, 2, n + 1)) \o slice(s, n + 1)
             ELSE <<Head(s)>> \o ReplaceTags_firstOnly(st, Tail(s))

\* content.replace(/#([a-zA-Z0-9_\-\/]+)/g, (match, tag) => '#' + normalizeTag(tag))
RECURSIVE ReplaceTags(_, _)
ReplaceTags(st, s) ==
    IF s = <<>> THEN <<>>
    ELSE LET n == LeadingRun(Tail(s), TagChars)
         IN  IF Head(s) = "#" /\ n >= 1
             THEN <<"#">> \o normalizeTag(st, SubSeq(s, 2, n + 1))
                         \o ReplaceTags(st, slice(s, n + 1))
             ELSE <<Head(s)>> \o ReplaceTags(st, Tail(s))

TagRules_enforce(st, content) ==
    IF ~st.enforceTagRules THEN content
    ELSE ReplaceTags(st, content)

----------------------------------------------------------------------------
(* format.ts: FormattingNormalizer *)

\* content.replace(/\n{3,}/g, '\n\n')
RECURSIVE CollapseNewlineRuns(_)
CollapseNewlineRuns(s) ==
    IF s = <<>> THEN <<>>
    ELSE LET n == LeadingRun(s, {"\n"})
         IN  IF n >= 3 THEN <<"\n", "\n">> \o CollapseNewlineRuns(slice(s, n))
             ELSE IF n >= 1 THEN SubSeq(s, 1, n) \o CollapseNewlineRuns(slice(s, n))
             ELSE <<Head(s)>> \o CollapseNewlineRuns(Tail(s))

removeMultipleBlankLines(st, content) ==
    IF ~st.removeMultipleBlankLines THEN content
    ELSE CollapseNewlineRuns(content)

\* a variant that appends a newline only where none ends the content
ensureTrailingNewline_appendOnly(st, content) ==
    IF ~st.endWithNewline THEN content
    ELSE IF endsWith(content, <<"\n">>) THEN content
    ELSE content \o <<"\n">>

\* content.replace(/\s+$/, '') + '\n'
ensureTrailingNewline(st, content) ==
    IF ~st.endWithNewline THEN content
    ELSE trimEnd(content) \o <<"\n">>

\* content.replace(/\r\n/g, '\n')
normalizeLineEndings(content) == ReplaceAll(content, <<"\r", "\n">>, <<"\n">>)

\* a variant that runs the line-ending step before testing normalizeFormatting
FormattingNormalizer_normalize_ungated(st, content) ==
    LET normalized == normalizeLineEndings(content)
    IN  IF ~st.normalizeFormatting THEN normalized
        ELSE ensureTrailingNewline(st, removeMultipleBlankLines(st, normalized))

FormattingNormalizer_normalize(st, content) ==
    IF ~st.normalizeFormatting THEN content
    ELSE ensureTrailingNewline(st,
            removeMultipleBlankLines(st,
                normalizeLineEndings(content)))

----------------------------------------------------------------------------
(* frontmatter.ts: FrontmatterEnforcer *)

Delimiter == <<"-", "-", "-">>

hasFrontmatter(content) == startsWith(trimStart(content), Delimiter)

extractFrontmatter(content) ==
    LET trimmed == trimStart(content)
        afterFirst == slice(trimmed, 3)
        endIndex == indexOf(afterFirst, <<"\n">> \o Delimiter)
    IN  IF ~startsWith(trimmed, Delimiter) THEN Null
        ELSE IF endIndex = -1 THEN Null
        ELSE [frontmatter |-> SubSeq(afterFirst, 1, endIndex),
              body |-> slice(afterFirst, endIndex + 4)]

\* title.toLowerCase().replace(/[^a-z0-9]+/g, '-')
RECURSIVE HyphenateRuns(_)
HyphenateRuns(s) ==
    IF s = <<>> THEN <<>>
    ELSE LET n == LeadingRunNot(s, Range(LowerCaseLetters) \cup Digits)
         IN  IF n >= 1 THEN <<"-">> \o HyphenateRuns(slice(s, n))
             ELSE <<Head(s)>> \o HyphenateRuns(Tail(s))

\* .replace(/^-+|-+$/g, '')
StripHyphens(s) ==
    LET a == LeadingRun(s, {"-"})
        t == slice(s, a)
    IN  SubSeq(t, 1, Len(t) - TrailingRun(t, {"-"}))

generateId(title) == StripHyphens(HyphenateRuns(toLowerCase(title)))

PlaceholderId == <<"{", "{", "i", "d", "}", "}">>

PlaceholderTitle == <<"{", "{", "t", "i", "t", "l", "e", "}", "}">>

PlaceholderDate == <<"{", "{", "d", "a", "t", "e", "}", "}">>

\* a variant without the two checks that add a missing delimiter
generateFrontmatter_noDelimiterCheck(st, name, date) ==
    IF ~st.enforceFrontmatter THEN <<>>
    ELSE LET title == StripMdExtension(name)
             f1 == ReplaceAll(st.frontmatterTemplate, PlaceholderId, generateId(title))
             f2 == ReplaceAll(f1, PlaceholderTitle, title)
         IN  ReplaceAll(f2, PlaceholderDate, date)

\* date is the value of new Date().toISOString().split('T')[0] at the call;
\* the titles and dates of the model hold no '$', which String.replace would
\* read as a replacement pattern
generateFrontmatter(st, name, date) ==
    IF ~st.enforceFrontmatter THEN <<>>
    ELSE LET title == StripMdExtension(name)
             id == generateId(title)
             f1 == ReplaceAll(st.frontmatterTemplate, PlaceholderId, id)
             f2 == ReplaceAll(f1, PlaceholderTitle, title)
             f3 == ReplaceAll(f2, PlaceholderDate, date)
             f4 == IF ~startsWith(f3, Delimiter) THEN Delimiter \o <<"\n">> \o f3 ELSE f3
         IN  IF ~endsWith(f4, Delimiter) THEN f4 \o <<"\n">> \o Delimiter ELSE f4

FrontmatterEnforcer_enforce(st, content, name, date) ==
    IF ~st.enforceFrontmatter THEN content
    ELSE IF hasFrontmatter(content) THEN content
    ELSE generateFrontmatter(st, name, date) \o <<"\n", "\n">> \o content

----------------------------------------------------------------------------
(* backlinks.ts: WikilinkInserter *)

\* a variant that leaves the '.md' extension in place
normalizeWikilinkPath_keepExtension(st, path) ==
    IF ~st.safeWikilinkInsertion THEN path
    ELSE LET parts == split(path, {"|"})
             alias == IF Len(parts) > 1 THEN trim(parts[2]) ELSE <<>>
             trimmed == trim(parts[1])
             segments == split(trimmed, {"/"})
             pop == segments[Len(segments)]
             linkPath == IF st.wikilinkStyle = "shortest"
                         THEN (IF pop # <<>> THEN pop ELSE trimmed)
                         ELSE trimmed
         IN  IF alias # <<>> THEN linkPath \o <<"|">> \o alias ELSE linkPath

\* alias is <<>> both for the null of a missing alias and for an empty one:
\* the test `alias ? ... : linkPath` treats the two alike
normalizeWikilinkPath(st, path) ==
    IF ~st.safeWikilinkInsertion THEN path
    ELSE LET parts == split(path, {"|"})
             alias == IF Len(parts) > 1 THEN trim(parts[2]) ELSE <<>>
             trimmed == trim(parts[1])
             segments == split(trimmed, {"/"})
             pop == segments[Len(segments)]
             linkPath == IF st.wikilinkStyle = "shortest"
                         THEN StripMdExtension(IF pop # <<>> THEN pop ELSE trimmed)
                         ELSE trimmed
         IN  IF alias # <<>> THEN linkPath \o <<"|">> \o alias ELSE linkPath

\* content.replace(/\[\[([^\]]+)\]\]/g, (match, path) => `[[${normalizeWikilinkPath(path)}]]`)
RECURSIVE ReplaceWikilinks(_, _)
ReplaceWikilinks(st, s) ==
    IF s = <<>> THEN <<>>
    ELSE LET n == LeadingRunNot(slice(s, 2), {"]"})
         IN  IF /\ startsWith(s, <<"[", "[">>)
                /\ n >= 1
                /\ startsWith(slice(s, 2 + n), <<"]", "]">>)
             THEN <<"[", "[">> \o normalizeWikilinkPath(st, SubSeq(s, 3, n + 2))
                    \o <<"]", "]">> \o ReplaceWikilinks(st, slice(s, n + 4))
             ELSE <<Head(s)>> \o ReplaceWikilinks(st, Tail(s))

WikilinkInserter_normalize(st, content) ==
    IF ~st.safeWikilinkInsertion THEN content
    ELSE ReplaceWikilinks(st, content)

----------------------------------------------------------------------------
(* normalize.ts: NormalizationPipeline *)

NormalizationPipeline_normalize(st, content, name, date) ==
    WikilinkInserter_normalize(st,
        TagRules_enforce(st,
            FormattingNormalizer_normalize(st,
                FrontmatterEnforcer_enforce(st, content, name, date))))

----------------------------------------------------------------------------
(* report.ts: change reports *)

\* the characters of the model in the order of their UTF-16 code units
CodeUnitOrder ==
    <<"\t", "\n", "\f", "\r", " ", "#", ",", "-", ".", "/",
      "0", "1", "2", "3", "4", "5", "6", "7", "8", "9", ":">>
        \o UpperCaseLetters \o <<"[", "]", "_", Backtick>>
        \o LowerCaseLetters \o <<"{", "|", "}">>

CodeUnit(c) == CHOOSE i \in DOMAIN CodeUnitOrder : CodeUnitOrder[i] = c

\* a sorts before b in the default order of Array.prototype.sort
RECURSIVE StringLess(_, _)
StringLess(a, b) ==
    IF b = <<>> THEN FALSE
    ELSE IF a = <<>> THEN TRUE
    ELSE IF Head(a) = Head(b) THEN StringLess(Tail(a), Tail(b))
    ELSE CodeUnit(Head(a)) < CodeUnit(Head(b))

\* Array.prototype.sort() on an array of strings
RECURSIVE sort(_)
sort(list) ==
    IF list = <<>> THEN <<>>
    ELSE LET rest == sort(Tail(list))
             k == Cardinality({ i \in 1..Len(rest) : StringLess(rest[i], Head(list)) })
         IN  SubSeq(rest, 1, k) \o <<Head(list)>> \o SubSeq(rest, k + 1, Len(rest))

\* Array.prototype.join(sep)
RECURSIVE joinWith(_, _)
joinWith(words, sep) ==
    IF words = <<>> THEN <<>>
    ELSE IF Len(words) = 1 THEN Head(words)
    ELSE Head(words) \o sep \o joinWith(Tail(words), sep)

\* content.split(/\r?\n/)
RECURSIVE splitLines(_)
splitLines(s) ==
    LET i == indexOf(s, <<"\n">>)
    IN  IF i = -1 THEN <<s>>
        ELSE <<SubSeq(s, 1, IF i >= 1 /\ s[i] = "\r" THEN i - 1 ELSE i)>>
                \o splitLines(slice(s, i + 1))

\* .filter(line => line.trim())
nonBlankLines(s) == SelectSeq(splitLines(s), LAMBDA line : trim(line) # <<>>)

\* content.match(/#([a-zA-Z0-9_\-\/]+)/g) || []
RECURSIVE matchTags(_)
matchTags(s) ==
    IF s = <<>> THEN <<>>
    ELSE LET n == LeadingRun(Tail(s), TagChars)
         IN  IF Head(s) = "#" /\ n >= 1
             THEN <<SubSeq(s, 1, n + 1)>> \o matchTags(slice(s, n + 1))
             ELSE matchTags(Tail(s))

\* content.match(/\[\[([^\]]+)\]\]/g) || []
RECURSIVE matchWikilinks(_)
matchWikilinks(s) ==
    IF s = <<>> THEN <<>>
    ELSE LET n == LeadingRunNot(slice(s, 2), {"]"})
         IN  IF /\ startsWith(s, <<"[", "[">>)
                /\ n >= 1
                /\ startsWith(slice(s, 2 + n), <<"]", "]">>)
             THEN <<SubSeq(s, 1, n + 4)>> \o matchWikilinks(slice(s, n + 4))
             ELSE matchWikilinks(Tail(s))

\* the extractFrontmatter of report.ts: the header text, or null
report_extractFrontmatter(content) ==
    LET trimmed == trimStart(content)
        afterFirst == slice(trimmed, 3)
        endIndex == indexOf(afterFirst, <<"\n">> \o Delimiter)
    IN  IF ~startsWith(trimmed, Delimiter) THEN Null
        ELSE IF endIndex = -1 THEN Null
        ELSE SubSeq(afterFirst, 1, endIndex)

\* a variant that compares all lines, the blank ones too
hasFormattingChanges_keepBlankLines(original, normalized) ==
    /\ joinWith(splitLines(original), <<"\n">>) = joinWith(splitLines(normalized), <<"\n">>)
    /\ original # normalized

hasFormattingChanges(original, normalized) ==
    /\ joinWith(nonBlankLines(original), <<"\n">>)
            = joinWith(nonBlankLines(normalized), <<"\n">>)
    /\ original # normalized

hasTagChanges(original, normalized) ==
    joinWith(sort(matchTags(original)), <<",">>)
        # joinWith(sort(matchTags(normalized)), <<",">>)

hasWikilinkChanges(original, normalized) ==
    joinWith(sort(matchWikilinks(original)), <<",">>)
        # joinWith(sort(matchWikilinks(normalized)), <<",">>)

\* a variant that tests for a normalized header after it pushed the added one
frontmatterChanges_both(originalContent, normalizedContent) ==
    LET originalHasFrontmatter == startsWith(trimStart(originalContent), Delimiter)
        normalizedHasFrontmatter == startsWith(trimStart(normalizedContent), Delimiter)
    IN  (IF ~originalHasFrontmatter /\ normalizedHasFrontmatter
         THEN <<"frontmatter-added">> ELSE <<>>)
        \o (IF /\ normalizedHasFrontmatter
                /\ report_extractFrontmatter(originalContent)
                        # report_extractFrontmatter(normalizedContent)
            THEN <<"frontmatter-normalized">> ELSE <<>>)

\* the frontmatter change that generateChangeReport pushes first, if any
frontmatterChanges(originalContent, normalizedContent) ==
    LET originalHasFrontmatter == startsWith(trimStart(originalContent), Delimiter)
        normalizedHasFrontmatter == startsWith(trimStart(normalizedContent), Delimiter)
    IN  IF ~originalHasFrontmatter /\ normalizedHasFrontmatter
        THEN <<"frontmatter-added">>
        ELSE IF /\ originalHasFrontmatter
                /\ normalizedHasFrontmatter
                /\ report_extractFrontmatter(originalContent)
                        # report_extractFrontmatter(normalizedContent)
             THEN <<"frontmatter-normalized">>
             ELSE <<>>

\* a variant without the early return, in which equal non-blank lines alone
\* make a formatting change
generateChangeReport_linesOnly(filePath, name, originalContent, normalizedContent) ==
    [ filePath |-> filePath,
      fileName |-> name,
      changes |->
        frontmatterChanges(originalContent, normalizedContent)
        \o (IF joinWith(nonBlankLines(originalContent), <<"\n">>)
                    = joinWith(nonBlankLines(normalizedContent), <<"\n">>)
            THEN <<"formatting-normalized">> ELSE <<>>)
        \o (IF hasTagChanges(originalContent, normalizedContent)
            THEN <<"tags-normalized">> ELSE <<>>)
        \o (IF hasWikilinkChanges(originalContent, normalizedContent)
            THEN <<"wikilinks-normalized">> ELSE <<>>),
      originalContent |-> originalContent,
      normalizedContent |-> normalizedContent ]

\* a Change is modelled by its type: its description and line number are
\* fixed by the type
generateChangeReport(filePath, name, originalContent, normalizedContent) ==
    [ filePath |-> filePath,
      fileName |-> name,
      changes |->
        IF originalContent = normalizedContent THEN <<>>
        ELSE frontmatterChanges(originalContent, normalizedContent)
             \o (IF hasFormattingChanges(originalContent, normalizedContent)
                 THEN <<"formatting-normalized">> ELSE <<>>)
             \o (IF hasTagChanges(originalContent, normalizedContent)
                 THEN <<"tags-normalized">> ELSE <<>>)
             \o (IF hasWikilinkChanges(originalContent, normalizedContent)
                 THEN <<"wikilinks-normalized">> ELSE <<>>),
      originalContent |-> originalContent,
      normalizedContent |-> normalizedContent ]

\* String(n) for a count
RECURSIVE numberToString(_)
numberToString(n) ==
    LET digit(d) == CHOOSE c \in Digits : CodeUnit(c) = CodeUnit("0") + d
    IN  IF n < 10 THEN <<digit(n)>> ELSE numberToString(n \div 10) \o <<digit(n % 10)>>

\* the characters of the name of a kind of change
TypeChars(type) ==
    CASE type = "frontmatter-added" -> <<"f","r","o","n","t","m","a","t","t","e","r","-","a","d","d","e","d">>
      [] type = "frontmatter-normalized" -> <<"f","r","o","n","t","m","a","t","t","e","r","-","n","o","r","m","a","l","i","z","e","d">>
      [] type = "formatting-normalized" -> <<"f","o","r","m","a","t","t","i","n","g","-","n","o","r","m","a","l","i","z","e","d">>
      [] type = "tags-normalized" -> <<"t","a","g","s","-","n","o","r","m","a","l","i","z","e","d">>
      [] type = "wikilinks-normalized" -> <<"w","i","k","i","l","i","n","k","s","-","n","o","r","m","a","l","i","z","e","d">>

\* the changes of all the reports, in the order the loops visit them
RECURSIVE allChanges(_)
allChanges(reports) ==
    IF reports = <<>> THEN <<>> ELSE Head(reports).changes \o allChanges(Tail(reports))

\* the keys of a Map in the order of their insertion
RECURSIVE insertionOrder(_)
insertionOrder(types) ==
    IF types = <<>> THEN <<>>
    ELSE LET before == insertionOrder(SubSeq(types, 1, Len(types) - 1))
             last == types[Len(types)]
         IN  IF last \in Range(before) THEN before ELSE Append(before, last)

\* the longest list of conforming files the vault report prints
MaxListedConforming == 20

\* a variant that prints the summary in the order of insertion
formatVaultReportAsMarkdown_unsorted(reports) ==
    LET changedFiles == SelectSeq(reports, LAMBDA r : Len(r.changes) > 0)
        unchangedFiles == SelectSeq(reports, LAMBDA r : Len(r.changes) = 0)
        changes == allChanges(changedFiles)
        changeTypes == insertionOrder(changes)
        count(type) == Cardinality({ i \in 1..Len(changes) : changes[i] = type })
        entryString(type) == TypeChars(type) \o <<",">> \o numberToString(count(type))
        sorted == [i \in 1..Len(changeTypes) |-> entryString(changeTypes[i])]
        typeAt(i) == CHOOSE type \in Range(changeTypes) : entryString(type) = sorted[i]
    IN  [ totalFilesProcessed |-> Len(reports),
          filesWithChanges |-> Len(changedFiles),
          filesAlreadyConforming |-> Len(unchangedFiles),
          summary |-> [i \in 1..Len(sorted) |-> <<typeAt(i), count(typeAt(i))>>],
          filesModified |->
              [i \in 1..Len(changedFiles) |->
                  [ fileName |-> changedFiles[i].fileName,
                    filePath |-> changedFiles[i].filePath,
                    changes |-> changedFiles[i].changes ]],
          conformingListed |->
              Len(unchangedFiles) > 0 /\ Len(unchangedFiles) <= MaxListedConforming,
          conformingPaths |->
              IF Len(unchangedFiles) > 0 /\ Len(unchangedFiles) <= MaxListedConforming
              THEN [i \in 1..Len(unchangedFiles) |-> unchangedFiles[i].filePath]
              ELSE <<>> ]

\* The vault report, part by part: the counts of its head, the lines of the
\* summary (kind and count), a section for each changed file, and the list
\* of the conforming files. The line with the time of generation is left out.
\* Array.prototype.sort() compares the entries [type, count] as the strings
\* 'type,count'.
formatVaultReportAsMarkdown(reports) ==
    LET changedFiles == SelectSeq(reports, LAMBDA r : Len(r.changes) > 0)
        unchangedFiles == SelectSeq(reports, LAMBDA r : Len(r.changes) = 0)
        changes == allChanges(changedFiles)
        changeTypes == insertionOrder(changes)
        count(type) == Cardinality({ i \in 1..Len(changes) : changes[i] = type })
        entryString(type) == TypeChars(type) \o <<",">> \o numberToString(count(type))
        sorted == sort([i \in 1..Len(changeTypes) |-> entryString(changeTypes[i])])
        typeAt(i) == CHOOSE type \in Range(changeTypes) : entryString(type) = sorted[i]
    IN  [ totalFilesProcessed |-> Len(reports),
          filesWithChanges |-> Len(changedFiles),
          filesAlreadyConforming |-> Len(unchangedFiles),
          summary |-> [i \in 1..Len(sorted) |-> <<typeAt(i), count(typeAt(i))>>],
          filesModified |->
              [i \in 1..Len(changedFiles) |->
                  [ fileName |-> changedFiles[i].fileName,
                    filePath |-> changedFiles[i].filePath,
                    changes |-> changedFiles[i].changes ]],
          conformingListed |->
              Len(unchangedFiles) > 0 /\ Len(unchangedFiles) <= MaxListedConforming,
          conformingPaths |->
              IF Len(unchangedFiles) > 0 /\ Len(unchangedFiles) <= MaxListedConforming
              THEN [i \in 1..Len(unchangedFiles) |-> unchangedFiles[i].filePath]
              ELSE <<>> ]

----------------------------------------------------------------------------
(* scan.ts: range scanner *)

Fence == <<Backtick, Backtick, Backtick>>

\* The loop over fencedRegex.exec for /(3 backticks)[\s\S]*?(3 backticks)/g,
\* from lastIndex on: the leftmost opening fence, then lazily through the
\* next fence that starts after it; offsets count from 0.
RECURSIVE detectCodeBlocksFrom(_, _)
detectCodeBlocksFrom(content, lastIndex) ==
    LET open == indexOf(slice(content, lastIndex), Fence)
        start == lastIndex + open
        close == indexOf(slice(content, start + 3), Fence)
        end == start + 3 + close + 3
    IN  IF open = -1 \/ close = -1 THEN <<>>
        ELSE << [ start |-> start, end |-> end, type |-> "code-block",
                  content |-> SubSeq(content, start + 1, end) ] >>
                \o detectCodeBlocksFrom(content, end)

detectCodeBlocks(content) == detectCodeBlocksFrom(content, 0)

----------------------------------------------------------------------------
(* main.ts: VaultLinterPlugin *)

\* The locals of a command: where it stands, the files it enumerated, the
\* index of the next one, its counters and its reports. attempted and failed
\* are records for the properties: the files the loop has taken up, in order,
\* and the files whose processing threw.
NoRun ==
    [ pc |-> "idle", files |-> <<>>, i |-> 1, normalizedCount |-> 0,
      errorCount |-> 0, reports |-> <<>>, attempted |-> <<>>, failed |-> {} ]

\* no file is active
NoFile == [folder |-> "", file |-> 0]

lintContent(content, name) == NormalizationPipeline_normalize(settings, content, name, today)

\* The rule modules keep the object they are constructed with
\* (this.settings = settings), and both the constructor in onload and
\* updateSettings hand them the plugin's one settings object, which
\* loadSettings makes once: the variable settings is that object, read by the
\* modules and written by the settings tab.

\* the toggles of the settings tab the edits are drawn from
EditedSettings == {"enforceFrontmatter", "normalizeFormatting"}

\* An onChange handler of the settings tab up to the await in saveSettings:
\* the field of plugin.settings is assigned and saveData is called.
EditSetting ==
    /\ saving < MaxSaves
    /\ \E field \in EditedSettings :
          settings' = [settings EXCEPT ![field] = ~@]
    /\ saving' = saving + 1
    /\ UNCHANGED <<built, fileName, today, input, result, op,
                   vault, activeFile, editor, run, notices>>

\* saveSettings after saveData has resolved: pipeline.updateSettings builds
\* the four rule modules anew from plugin.settings
SaveDataReturns ==
    /\ saving > 0
    /\ saving' = saving - 1
    /\ built' = settings
    /\ UNCHANGED <<settings, fileName, today, input, result, op,
                   vault, activeFile, editor, run, notices>>

\* saveData rejects: saveSettings ends before updateSettings
SaveDataThrows ==
    /\ saving > 0
    /\ saving' = saving - 1
    /\ UNCHANGED <<settings, built, fileName, today, input, result, op,
                   vault, activeFile, editor, run, notices>>

\* TFile.path of the k-th markdown file of the vault
filePath(k) == <<vault.files[k].folder, "/">> \o vault.files[k].name

\* vault.getMarkdownFiles(), as indices into the files of the vault
getMarkdownFiles == [k \in 1..Len(vault.files) |-> k]

getMarkdownFilesInFolder(folder) ==
    SelectSeq(getMarkdownFiles, LAMBDA k : vault.files[k].folder = folder)

\* the fields formatReportAsMarkdown prints
formatReportAsMarkdown(report) ==
    [ fileName |-> report.fileName, filePath |-> report.filePath,
      changes |-> report.changes ]

\* the file the loop of the running command is at
CurrentFile == run.files[run.i]

InNormalizeLoop ==
    /\ op \in {"normalizeAllFiles", "normalizeFolder"}
    /\ run.pc = "loop"

InDryRunLoop == op = "dryRunEntireVault" /\ run.pc = "loop"

NormalizeCurrentFile ==
    /\ op = "init"
    /\ op' = "normalizeCurrentFile"
    /\ run' = [NoRun EXCEPT !.pc = "done"]
    /\ IF activeFile.file = 0
       THEN /\ notices' = Append(notices, [text |-> "No active file"])
            /\ editor' = editor
       ELSE LET normalized == lintContent(editor, vault.files[activeFile.file].name)
            IN  IF editor = normalized
                THEN /\ notices' = Append(notices,
                            [text |-> "File already conforms to linting rules"])
                     /\ editor' = editor
                ELSE /\ editor' = normalized
                     /\ notices' = Append(notices, [text |-> "File normalized successfully"])
    /\ UNCHANGED <<saving, built>>
    /\ UNCHANGED <<settings, fileName, today, input, result, vault, activeFile>>

\* The branch for an active file without a parent folder is left out: every
\* file of a vault has one.
NormalizeFolderStart ==
    /\ op = "init"
    /\ op' = "normalizeFolder"
    /\ LET files == getMarkdownFilesInFolder(activeFile.folder)
       IN  IF activeFile = NoFile
           THEN /\ run' = [NoRun EXCEPT !.pc = "done"]
                /\ notices' = Append(notices,
                        [text |-> "Please open a file in the folder you want to normalize"])
           ELSE IF Len(files) = 0
           THEN /\ run' = [NoRun EXCEPT !.pc = "done"]
                /\ notices' = Append(notices,
                        [text |-> "No markdown files found in this folder"])
           ELSE /\ run' = [NoRun EXCEPT !.pc = "loop", !.files = files]
                /\ notices' = Append(notices,
                        [text |-> "Starting folder normalization", files |-> Len(files)])
    /\ UNCHANGED <<saving, built>>
    /\ UNCHANGED <<settings, fileName, today, input, result, vault, activeFile, editor>>

NormalizeAllFilesStart ==
    /\ op = "init"
    /\ op' = "normalizeAllFiles"
    /\ run' = [NoRun EXCEPT !.pc = "loop", !.files = getMarkdownFiles]
    /\ notices' = Append(notices,
            [text |-> "Starting vault normalization", files |-> Len(getMarkdownFiles)])
    /\ UNCHANGED <<saving, built>>
    /\ UNCHANGED <<settings, fileName, today, input, result, vault, activeFile, editor>>

\* one pass of the loop in which normalizeFile returns
NormalizeFileReturns ==
    /\ InNormalizeLoop
    /\ run.i <= Len(run.files)
    /\ LET content == vault.files[CurrentFile].content
           normalized == lintContent(content, vault.files[CurrentFile].name)
       IN  vault' = IF content # normalized
                    THEN [vault EXCEPT !.files[CurrentFile].content = normalized]
                    ELSE vault
    /\ run' = [run EXCEPT !.i = @ + 1, !.normalizedCount = @ + 1,
                          !.attempted = Append(@, CurrentFile)]
    /\ UNCHANGED <<saving, built>>
    /\ UNCHANGED <<settings, fileName, today, input, result, op, activeFile, editor, notices>>

\* a variant without the try block: the exception ends the command
NormalizeFileThrows_aborts ==
    /\ InNormalizeLoop
    /\ run.i <= Len(run.files)
    /\ run' = [run EXCEPT !.pc = "done", !.attempted = Append(@, CurrentFile),
                          !.failed = @ \cup {CurrentFile}]
    /\ UNCHANGED <<saving, built>>
    /\ UNCHANGED <<settings, fileName, today, input, result, op,
                   vault, activeFile, editor, notices>>

\* one pass of the loop in which normalizeFile throws: vault.read rejects, or
\* vault.modify rejects when there is something to write
NormalizeFileThrows ==
    /\ InNormalizeLoop
    /\ run.i <= Len(run.files)
    /\ \E call \in {"read", "modify"} :
          call = "modify" =>
              LET content == vault.files[CurrentFile].content
              IN  content # lintContent(content, vault.files[CurrentFile].name)
    /\ run' = [run EXCEPT !.i = @ + 1, !.errorCount = @ + 1,
                          !.attempted = Append(@, CurrentFile),
                          !.failed = @ \cup {CurrentFile}]
    /\ UNCHANGED <<saving, built>>
    /\ UNCHANGED <<settings, fileName, today, input, result, op,
                   vault, activeFile, editor, notices>>

\* the notice after the loop
NormalizeFinish ==
    /\ InNormalizeLoop
    /\ run.i > Len(run.files)
    /\ run' = [run EXCEPT !.pc = "done"]
    /\ notices' = Append(notices,
            IF run.errorCount > 0
            THEN [text |-> "Normalized files (errors)",
                  normalized |-> run.normalizedCount, errors |-> run.errorCount]
            ELSE [text |-> "Successfully normalized files",
                  normalized |-> run.normalizedCount])
    /\ UNCHANGED <<saving, built>>
    /\ UNCHANGED <<settings, fileName, today, input, result, op, vault, activeFile, editor>>

\* a variant that writes the normalized text to the editor
DryRunCurrentFile_setsValue ==
    /\ op = "init"
    /\ op' = "dryRunCurrentFile"
    /\ run' = [NoRun EXCEPT !.pc = "done"]
    /\ notices' = Append(notices, [text |-> "File has linting issues"])
    /\ editor' = IF activeFile.file = 0 THEN editor
                 ELSE lintContent(editor, vault.files[activeFile.file].name)
    /\ UNCHANGED <<saving, built>>
    /\ UNCHANGED <<settings, fileName, today, input, result, vault, activeFile>>

\* result takes what the command writes to the console
DryRunCurrentFile ==
    /\ op = "init"
    /\ op' = "dryRunCurrentFile"
    /\ run' = [NoRun EXCEPT !.pc = "done"]
    /\ IF activeFile.file = 0
       THEN /\ notices' = Append(notices, [text |-> "No active file"])
            /\ result' = result
       ELSE LET name == vault.files[activeFile.file].name
                normalized == lintContent(editor, name)
            IN  IF editor = normalized
                THEN /\ notices' = Append(notices, [text |-> "File conforms to linting rules"])
                     /\ result' = result
                ELSE /\ notices' = Append(notices, [text |-> "File has linting issues"])
                     /\ result' = formatReportAsMarkdown(
                            generateChangeReport(filePath(activeFile.file), name,
                                                 editor, normalized))
    /\ UNCHANGED <<saving, built>>
    /\ UNCHANGED <<settings, fileName, today, input, vault, activeFile, editor>>

DryRunEntireVaultStart ==
    /\ op = "init"
    /\ op' = "dryRunEntireVault"
    /\ run' = [NoRun EXCEPT !.pc = "loop", !.files = getMarkdownFiles]
    /\ notices' = Append(notices,
            [text |-> "Starting vault dry run", files |-> Len(getMarkdownFiles)])
    /\ UNCHANGED <<saving, built>>
    /\ UNCHANGED <<settings, fileName, today, input, result, vault, activeFile, editor>>

\* one pass of the loop in which the file is read and its report pushed
DryRunFileReturns ==
    /\ InDryRunLoop
    /\ run.i <= Len(run.files)
    /\ LET content == vault.files[CurrentFile].content
           name == vault.files[CurrentFile].name
           report == generateChangeReport(filePath(CurrentFile), name, content,
                                          lintContent(content, name))
       IN  run' = [run EXCEPT !.i = @ + 1, !.reports = Append(@, report),
                              !.attempted = Append(@, CurrentFile)]
    /\ UNCHANGED <<saving, built>>
    /\ UNCHANGED <<settings, fileName, today, input, result, op,
                   vault, activeFile, editor, notices>>

\* one pass of the loop in which vault.read rejects: the catch block writes
\* to the console and nothing else
DryRunFileThrows ==
    /\ InDryRunLoop
    /\ run.i <= Len(run.files)
    /\ run' = [run EXCEPT !.i = @ + 1, !.attempted = Append(@, CurrentFile),
                          !.failed = @ \cup {CurrentFile}]
    /\ UNCHANGED <<saving, built>>
    /\ UNCHANGED <<settings, fileName, today, input, result, op,
                   vault, activeFile, editor, notices>>

\* a variant without the instanceof TFolder test
DryRunEnsureReportsFolder_anyEntry ==
    /\ InDryRunLoop
    /\ run.i > Len(run.files)
    /\ vault' = IF vault.reports = "absent" THEN [vault EXCEPT !.reports = "folder"] ELSE vault
    /\ run' = [run EXCEPT !.pc = "write"]
    /\ UNCHANGED <<saving, built>>
    /\ UNCHANGED <<settings, fileName, today, input, result, op, activeFile, editor, notices>>

\* after the loop: the entry at 'Reports' is looked up, and created when absent
DryRunEnsureReportsFolder ==
    /\ InDryRunLoop
    /\ run.i > Len(run.files)
    /\ CASE vault.reports = "absent" ->
                /\ vault' = [vault EXCEPT !.reports = "folder"]
                /\ run' = [run EXCEPT !.pc = "write"]
                /\ notices' = notices
         [] vault.reports = "file" ->
                /\ notices' = Append(notices,
                        [text |-> "Cannot save vault lint report: 'Reports' exists and is not a folder."])
                /\ run' = [run EXCEPT !.pc = "done"]
                /\ vault' = vault
         [] OTHER ->
                /\ run' = [run EXCEPT !.pc = "write"]
                /\ UNCHANGED <<vault, notices>>
    /\ UNCHANGED <<saving, built>>
    /\ UNCHANGED <<settings, fileName, today, input, result, op, activeFile, editor>>

\* vault.create of the report file, and the closing notice
DryRunWriteReport ==
    /\ op = "dryRunEntireVault"
    /\ run.pc = "write"
    /\ vault' = [vault EXCEPT !.reportFiles =
                    Append(@, formatVaultReportAsMarkdown(run.reports))]
    /\ notices' = Append(notices,
            [text |-> "Dry run complete. Report saved",
             changedFiles |-> Len(SelectSeq(run.reports, LAMBDA r : Len(r.changes) > 0))])
    /\ run' = [run EXCEPT !.pc = "done"]
    /\ UNCHANGED <<saving, built>>
    /\ UNCHANGED <<settings, fileName, today, input, result, op, activeFile, editor>>

----------------------------------------------------------------------------
(* Inputs *)

\* a template without delimiters: 'id: {{id}}\ndate: {{date}}'
BareTemplate == <<"i","d",":"," ","{","{","i","d","}","}","\n","d","a","t","e",":"," ","{","{","d","a","t","e","}","}">>

Templates == {DefaultTemplate, BareTemplate, <<>>}

\* 'My Note.md' and 'a.md'
FileNames == {<<"M","y"," ","N","o","t","e",".","m","d">>, <<"a",".","m","d">>}

\* two consecutive values of new Date().toISOString().split('T')[0]
Dates == <<<<"2","0","2","6","-","1","1","-","0","2">>, <<"2","0","2","6","-","1","1","-","0","3">>>>

\* every settings record over the given templates
AllSettings(templates) ==
    [ enforceFrontmatter : BOOLEAN,
      frontmatterTemplate : templates,
      normalizeFormatting : BOOLEAN,
      endWithNewline : BOOLEAN,
      removeMultipleBlankLines : BOOLEAN,
      enforceTagRules : BOOLEAN,
      tagFormat : TagFormats,
      safeWikilinkInsertion : BOOLEAN,
      wikilinkStyle : WikilinkStyles ]

\* the settings records that differ from the defaults only in the fields of fs
SettingsVarying(fs) ==
    { st \in AllSettings({DefaultTemplate}) :
        \A f \in DOMAIN DEFAULT_SETTINGS \ fs : st[f] = DEFAULT_SETTINGS[f] }

Start(sts, names, inputs) ==
    /\ settings \in sts
    /\ fileName \in names
    /\ today = Dates[1]
    /\ input \in inputs
    /\ result = <<>>
    /\ op = "init"
    /\ vault = [files |-> <<>>, reports |-> "absent", reportFiles |-> <<>>]
    /\ activeFile = NoFile
    /\ editor = <<>>
    /\ run = NoRun
    /\ notices = <<>>
    /\ saving = 0
    /\ built = settings

Apply(name, value) ==
    /\ result' = value
    /\ op' = name
    /\ UNCHANGED <<settings, fileName, today, input>>
    /\ UNCHANGED hostVars

----------------------------------------------------------------------------
(* Tag rules on bounded inputs *)

TagAlphabet == {"#", "a", "B", "-", Backtick, " "}

\* 'hello #MyTag world'
TagExample == <<"h","e","l","l","o"," ","#","M","y","T","a","g"," ","w","o","r","l","d">>

\* a tag inside a fenced code block: three backticks, '\n#A/b_C\n', three backticks
FencedTag == <<Backtick,Backtick,Backtick,"\n","#","A","/","b","_","C","\n",Backtick,Backtick,Backtick>>

TagInputs == StringsUpTo(TagAlphabet, MaxTagLen) \cup {TagExample, FencedTag}

\* a captured token of the tag pattern
IsTagToken(s) == s # <<>> /\ \A i \in 1..Len(s) : s[i] \in TagChars

InitTags == Start(SettingsVarying({"enforceTagRules", "tagFormat"}), {<<"a", ".", "m", "d">>}, TagInputs)

ApplyNormalizeTag ==
    /\ op = "init"
    /\ IsTagToken(input)
    /\ Apply("normalizeTag", normalizeTag(settings, input))

ApplyTagRulesEnforce ==
    /\ op = "init"
    /\ Apply("TagRules.enforce", TagRules_enforce(settings, input))

NextTags == ApplyNormalizeTag \/ ApplyTagRulesEnforce

SpecTags == InitTags /\ [][NextTags]_vars

----------------------------------------------------------------------------
(* Formatting normalization on bounded inputs *)

FormatAlphabet == {"\r", "\n", "a", " "}

\* 'line1\n\n\n\nline2'
FormatExample == <<"l","i","n","e","1","\n","\n","\n","\n","l","i","n","e","2">>

FormatInputs == StringsUpTo(FormatAlphabet, MaxFormatLen) \cup {FormatExample}

FormatFlags == {"normalizeFormatting", "endWithNewline", "removeMultipleBlankLines"}

InitFormat == Start(SettingsVarying(FormatFlags), {<<"a", ".", "m", "d">>}, FormatInputs)

ApplyNormalizeLineEndings ==
    /\ op = "init"
    /\ Apply("normalizeLineEndings", normalizeLineEndings(input))

ApplyRemoveMultipleBlankLines ==
    /\ op = "init"
    /\ Apply("removeMultipleBlankLines", removeMultipleBlankLines(settings, input))

ApplyEnsureTrailingNewline ==
    /\ op = "init"
    /\ Apply("ensureTrailingNewline", ensureTrailingNewline(settings, input))

ApplyFormattingNormalize ==
    /\ op = "init"
    /\ Apply("FormattingNormalizer.normalize", FormattingNormalizer_normalize(settings, input))

NextFormat ==
    \/ ApplyNormalizeLineEndings
    \/ ApplyRemoveMultipleBlankLines
    \/ ApplyEnsureTrailingNewline
    \/ ApplyFormattingNormalize

SpecFormat == InitFormat /\ [][NextFormat]_vars

----------------------------------------------------------------------------
(* Frontmatter enforcement on bounded inputs *)

ContentAlphabet == {"-", "\n", " ", "a"}

ContentInputs == StringsUpTo(ContentAlphabet, MaxContentLen)

FrontmatterSettings ==
    { st \in AllSettings(Templates) :
        \A f \in DOMAIN DEFAULT_SETTINGS \ {"enforceFrontmatter", "frontmatterTemplate"} :
            st[f] = DEFAULT_SETTINGS[f] }

InitFrontmatter == Start(FrontmatterSettings, FileNames, ContentInputs)

\* the host clock moves on to the next day
Tick ==
    /\ today = Dates[1]
    /\ today' = Dates[2]
    /\ UNCHANGED <<settings, fileName, input, result, op>>
    /\ UNCHANGED hostVars

ApplyFrontmatterEnforce ==
    /\ op = "init"
    /\ Apply("FrontmatterEnforcer.enforce",
          FrontmatterEnforcer_enforce(settings, input, fileName, today))

ApplyExtractFrontmatter ==
    /\ op = "init"
    /\ Apply("extractFrontmatter", extractFrontmatter(input))

NextFrontmatter == Tick \/ ApplyFrontmatterEnforce \/ ApplyExtractFrontmatter

SpecFrontmatter == InitFrontmatter /\ [][NextFrontmatter]_vars

----------------------------------------------------------------------------
(* Wikilink normalization on bounded inputs *)

WikilinkAlphabet == {"a", "/", "|", ".", "m", "d", " "}

\* 'Folder/Sub/Page.md|Alias'
WikilinkExamplePath == <<"F","o","l","d","e","r","/","S","u","b","/","P","a","g","e",".","m","d","|","A","l","i","a","s">>

Wrap(path) == <<"[", "[">> \o path \o <<"]", "]">>

\* the inner texts the wikilink pattern can capture: non-empty, without ']'
WikilinkPaths ==
    (StringsUpTo(WikilinkAlphabet, MaxWikilinkLen) \ {<<>>})
        \cup {WikilinkExamplePath, <<"a","/","b",".","m","d",".","m","d">>, <<" ","a","/","b",".","m","d"," ","|"," ","c"," ">>, <<"a","/","b","|","c","|","d">>}

\* documents: one link alone, two links in running text, an unterminated link
WikilinkContents ==
    { Wrap(p) : p \in WikilinkPaths }
        \cup {<<"x"," ","[","[","a","/","b",".","m","d","]","]"," ","y"," ","[","[","c","/","d","|","e","]","]"," ","z">>, <<"[","[","a","/","b",".","m","d">>, <<"[","[","]","]"," ","[","[","a","/","b","]">>}

WikilinkSettings == SettingsVarying({"safeWikilinkInsertion", "wikilinkStyle"})

InitWikilink ==
    Start(WikilinkSettings, {<<"a", ".", "m", "d">>}, WikilinkPaths \cup WikilinkContents)

ApplyNormalizeWikilinkPath ==
    /\ op = "init"
    /\ input \in WikilinkPaths
    /\ Apply("normalizeWikilinkPath", normalizeWikilinkPath(settings, input))

ApplyWikilinkNormalize ==
    /\ op = "init"
    /\ input \in WikilinkContents
    /\ Apply("WikilinkInserter.normalize", WikilinkInserter_normalize(settings, input))

NextWikilink == ApplyNormalizeWikilinkPath \/ ApplyWikilinkNormalize

SpecWikilink == InitWikilink /\ [][NextWikilink]_vars

----------------------------------------------------------------------------
(* The pipeline under every combination of rule flags and styles *)

PipelineAlphabet == {"\r", "\n", "#", "a", "-"}

\* documents that give every rule module something to do
Documents ==
    { <<"a","\r","\n","b">>, <<"a","\n","\n","\n","\n","b"," ","\n","\n">>, <<"-","-","-","\n","t",":"," ","x","\n","-","-","-","\n","\n","b","o","d","y","\n">>, <<"s","e","e"," ","#","M","y","-","T","a","g"," ","a","n","d"," ","#","a","/","b","\n">>, <<"[","[","F","o","l","d","e","r","/","S","u","b","/","P","a","g","e",".","m","d","|","A","l","i","a","s","]","]","\n">>, <<"\r","\r","\n","#","A","_","b"," ","[","[","c","/","d",".","m","d",".","m","d","]","]">>, <<"-","-","-"," ","#","A">> }

PipelineInputs == StringsUpTo(PipelineAlphabet, MaxPipelineLen) \cup Documents

Init == Start(AllSettings({DefaultTemplate, BareTemplate}), {<<"a", ".", "m", "d">>}, PipelineInputs)

\* VaultLinterPlugin.lintContent: one run of the pipeline over the document
Normalize ==
    /\ result' = NormalizationPipeline_normalize(settings, input, fileName, today)
    /\ op' = "normalize"
    /\ UNCHANGED <<settings, fileName, today, input>>
    /\ UNCHANGED hostVars

Next == Tick \/ Normalize

Spec == Init /\ [][Next]_vars

----------------------------------------------------------------------------
(* Change reports on bounded pairs of documents *)

\* Four families of documents, each the concatenations of at most
\* MaxReportTokens tokens: line structure, tags, wikilinks, frontmatter.
ReportTokenSets ==
    { { <<"\r">>, <<"\n">>, <<"a">>, <<" ">> },
      { <<"#", "a">>, <<"#", "B">>, <<"\n">>, <<"-">> },
      { <<"[", "[", "a">>, <<"]", "]">>, <<"\n">>, <<",">> },
      { <<"-", "-", "-">>, <<"\n">>, <<"a">>, <<" ">> } }

TokenDocuments(tokens) == { join(w) : w \in StringsUpTo(tokens, MaxReportTokens) }

\* '#A [[x/a]]\n' and '---\n---\n\n#a [[a]]\n': a header was added, a tag and
\* a link rewritten
HeaderTagLinkPair ==
    << <<"#","A"," ","[","[","x","/","a","]","]","\n">>,
       <<"-","-","-","\n","-","-","-","\n","\n","#","a"," ","[","[","a","]","]","\n">> >>

\* '---\n\n---[[a\n\n]]' and '---\n---[[a\n]]': blank lines were dropped from
\* the header and from a link
BlankLinesInHeaderAndLinkPair ==
    << <<"-","-","-","\n","\n","-","-","-","[","[","a","\n","\n","]","]">>,
       <<"-","-","-","\n","-","-","-","[","[","a","\n","]","]">> >>

\* 'line1\r\n\r\n\r\n\r\nline2' and 'line1\n\nline2\n'
LineStructurePair ==
    << <<"l","i","n","e","1","\r","\n","\r","\n","\r","\n","\r","\n","l","i","n","e","2">>,
       <<"l","i","n","e","1","\n","\n","l","i","n","e","2","\n">> >>

\* '#a [[b]]\n' twice
IdenticalPair ==
    << <<"#","a"," ","[","[","b","]","]","\n">>, <<"#","a"," ","[","[","b","]","]","\n">> >>

ReportPairs ==
    UNION { TokenDocuments(tokens) \X TokenDocuments(tokens) : tokens \in ReportTokenSets }
        \cup {HeaderTagLinkPair, BlankLinesInHeaderAndLinkPair, LineStructurePair, IdenticalPair}

InitReport == Start({DEFAULT_SETTINGS}, {<<"a", ".", "m", "d">>}, ReportPairs)

ApplyGenerateChangeReport ==
    /\ op = "init"
    /\ Apply("generateChangeReport",
             generateChangeReport(<<"A", "/">> \o fileName, fileName, input[1], input[2]))

NextReport == ApplyGenerateChangeReport

SpecReport == InitReport /\ [][NextReport]_vars

----------------------------------------------------------------------------
(* The vault report on bounded lists of reports *)

ChangedPairs == {HeaderTagLinkPair, BlankLinesInHeaderAndLinkPair, LineStructurePair}

\* Lists of documents with their normalized forms: changed ones in front,
\* at most MaxConforming unchanged ones, changed ones behind; at most
\* MaxChangedReports changed ones in all.
ReportLists ==
    { front \o [i \in 1..n |-> IdenticalPair] \o back :
        <<front, n, back>> \in
            { t \in StringsUpTo(ChangedPairs, MaxChangedReports)
                        \X (0..MaxConforming)
                        \X StringsUpTo(ChangedPairs, MaxChangedReports) :
                Len(t[1]) + Len(t[3]) <= MaxChangedReports } }

\* the reports dryRunEntireVault builds for the documents of pairs: the k-th
\* file is 'A/k.md'
ReportsFor(pairs) ==
    [k \in 1..Len(pairs) |->
        LET name == numberToString(k) \o <<".", "m", "d">>
        IN  generateChangeReport(<<"A", "/">> \o name, name, pairs[k][1], pairs[k][2])]

InitVaultReport == Start({DEFAULT_SETTINGS}, {<<"a", ".", "m", "d">>}, ReportLists)

ApplyFormatVaultReport ==
    /\ op = "init"
    /\ Apply("formatVaultReportAsMarkdown", formatVaultReportAsMarkdown(ReportsFor(input)))

NextVaultReport == ApplyFormatVaultReport

SpecVaultReport == InitVaultReport /\ [][NextVaultReport]_vars

----------------------------------------------------------------------------
(* The scanner on bounded inputs *)

ScanAlphabet == {Backtick, "\n", "a"}

ScanInputs == StringsUpTo(ScanAlphabet, MaxScanLen)

InitScan == Start({DEFAULT_SETTINGS}, {<<"a", ".", "m", "d">>}, ScanInputs)

ApplyDetectCodeBlocks ==
    /\ op = "init"
    /\ Apply("detectCodeBlocks", detectCodeBlocks(input))

NextScan == ApplyDetectCodeBlocks

SpecScan == InitScan /\ [][NextScan]_vars

----------------------------------------------------------------------------
(* The commands of the plugin over small vaults *)

\* a document the pipeline leaves as it is under the default settings:
\* '---\nt\n---\n'
ConformingDocument == <<"-","-","-","\n","t","\n","-","-","-","\n">>

\* a document the pipeline changes: 'a\r\nb'
NonConformingDocument == <<"a","\r","\n","b">>

\* the k-th file of a vault: 'a.md' in folder A, 'b.md' in folder B, 'c.md'
\* in folder A, and so on
VaultFile(k, content) ==
    [ folder |-> IF k % 2 = 1 THEN "A" ELSE "B",
      name |-> <<LowerCaseLetters[k], ".", "m", "d">>,
      content |-> content ]

\* the vaults with at most MaxFiles markdown files
Vaults ==
    { [ files |-> [k \in 1..n |-> VaultFile(k, c[k])], reports |-> r, reportFiles |-> <<>> ] :
        <<n, c, r>> \in { t \in (0..MaxFiles)
                                \X [1..MaxFiles -> {ConformingDocument, NonConformingDocument}]
                                \X {"absent", "folder", "file"} :
                            \A k \in (t[1] + 1)..MaxFiles : t[2][k] = ConformingDocument } }

\* no active file, the first markdown file, or a file that is not markdown
\* in a folder without markdown files
ActiveFiles(v) ==
    {NoFile, [folder |-> "C", file |-> 0]}
        \cup (IF Len(v.files) > 0 THEN {[folder |-> v.files[1].folder, file |-> 1]} ELSE {})

InitPlugin ==
    /\ settings = DEFAULT_SETTINGS
    /\ fileName = <<>>
    /\ today = Dates[1]
    /\ input = <<>>
    /\ result = <<>>
    /\ op = "init"
    /\ vault \in Vaults
    /\ activeFile \in ActiveFiles(vault)
    /\ editor = IF activeFile.file > 0 THEN vault.files[activeFile.file].content ELSE <<>>
    /\ run = NoRun
    /\ notices = <<>>
    /\ saving = 0
    /\ built = settings

NextPlugin ==
    \/ NormalizeCurrentFile
    \/ NormalizeFolderStart
    \/ NormalizeAllFilesStart
    \/ NormalizeFileReturns
    \/ NormalizeFileThrows
    \/ NormalizeFinish
    \/ DryRunCurrentFile
    \/ DryRunEntireVaultStart
    \/ DryRunFileReturns
    \/ DryRunFileThrows
    \/ DryRunEnsureReportsFolder
    \/ DryRunWriteReport

SpecPlugin == InitPlugin /\ [][NextPlugin]_vars

----------------------------------------------------------------------------
(* Edits in the settings tab while a batch normalization runs *)

InitSettings ==
    /\ InitPlugin
    /\ Len(vault.files) <= MaxEditedFiles
    /\ vault.reports = "absent"

NextSettings ==
    \/ EditSetting
    \/ SaveDataReturns
    \/ SaveDataThrows
    \/ NormalizeFolderStart
    \/ NormalizeAllFilesStart
    \/ NormalizeFileReturns
    \/ NormalizeFileThrows
    \/ NormalizeFinish

SpecSettings == InitSettings /\ [][NextSettings]_vars

----------------------------------------------------------------------------
(* Properties of the pipeline *)

HasCRLF(s) == \E i \in 1..(Len(s) - 1) : s[i] = "\r" /\ s[i + 1] = "\n"

RuleFlags ==
    {"enforceFrontmatter", "normalizeFormatting", "endWithNewline",
     "removeMultipleBlankLines", "enforceTagRules", "safeWikilinkInsertion"}

AllRulesOff(st) == \A f \in RuleFlags : ~st[f]

\* C1: the pipeline is idempotent: normalizing the output of normalize again,
\* under the same settings and file name, returns that output unchanged.
PipelineIdempotent ==
    op = "normalize" =>
        NormalizationPipeline_normalize(settings, result, fileName, today) = result

\* C2: the pipeline is deterministic: a later invocation on the same settings,
\* content and file name returns the same string as the invocation before it,
\* whatever the host clock shows.
PipelineDeterministic ==
    [][(op = "normalize" /\ op' = "normalize") => result' = result]_vars

\* C3: with every rule flag false the pipeline returns its input unchanged,
\* CRLF line endings included.
DisabledPipelineIsIdentity ==
    (op = "normalize" /\ AllRulesOff(settings)) => result = input

\* C3 witness: a document with CRLF line endings went through the disabled
\* pipeline and came out as it was.
DisabledPipelineKeepsCRLF ==
    /\ op = "normalize"
    /\ AllRulesOff(settings)
    /\ HasCRLF(input)
    /\ result = input

----------------------------------------------------------------------------
(* Properties of the frontmatter enforcer *)

IsSuffix(t, s) == endsWith(s, t)

\* C4: enforce returns the content unchanged when enforcement is off or the
\* content already has frontmatter; otherwise it returns the generated header,
\* a blank line and the content, a string that has frontmatter and ends with
\* the original content. Enforcing again changes nothing.
EnforceAddsOnlyMissingFrontmatter ==
    op = "FrontmatterEnforcer.enforce" =>
        /\ IF ~settings.enforceFrontmatter \/ hasFrontmatter(input)
           THEN result = input
           ELSE /\ \E d \in Range(Dates) :
                    result = generateFrontmatter(settings, fileName, d)
                                \o <<"\n", "\n">> \o input
                /\ hasFrontmatter(result)
                /\ IsSuffix(input, result)
                /\ Len(result) > Len(input)
        /\ \A d \in Range(Dates) :
                FrontmatterEnforcer_enforce(settings, result, fileName, d) = result

\* C4 witness: a header was generated from a template without delimiters and
\* put in front of a non-empty document that had none.
HeaderAddedFromBareTemplate ==
    /\ op = "FrontmatterEnforcer.enforce"
    /\ settings.enforceFrontmatter
    /\ settings.frontmatterTemplate = BareTemplate
    /\ ~hasFrontmatter(input)
    /\ input # <<>>
    /\ hasFrontmatter(result)
    /\ result # input

\* content that opens with the delimiter and holds no closing one, a newline
\* directly followed by '---' after the opening delimiter
Unterminated(s) ==
    /\ startsWith(s, Delimiter)
    /\ \A i \in 4..(Len(s) - 3) : SubSeq(s, i, i + 3) # <<"\n">> \o Delimiter

\* C12: content that begins with '---' and has no closing delimiter is not
\* taken for frontmatter: hasFrontmatter is false for it, and with
\* enforceFrontmatter on, enforce puts a generated header in front of it.
UnterminatedGetsHeader ==
    (op = "FrontmatterEnforcer.enforce" /\ Unterminated(input)) =>
        /\ ~hasFrontmatter(input)
        /\ settings.enforceFrontmatter =>
                \E d \in Range(Dates) :
                    result = generateFrontmatter(settings, fileName, d)
                                \o <<"\n", "\n">> \o input

----------------------------------------------------------------------------
(* Properties of the tag rules *)

\* the characters a tag token is made of: letters, digits, '_', '-' and '/'
TagTokenClass ==
    Range(LowerCaseLetters) \cup Range(UpperCaseLetters) \cup Digits \cup {"_", "-", "/"}

\* the positions where a match of the tag pattern starts: a '#' directly
\* followed by a character of a token
TagMatchStarts(s) ==
    { i \in 1..(Len(s) - 1) : s[i] = "#" /\ s[i + 1] \in TagTokenClass }

\* the position of the last character of the match that starts at i
TagMatchEnd(s, i) ==
    CHOOSE e \in (i + 1)..Len(s) :
        /\ \A j \in (i + 1)..e : s[j] \in TagTokenClass
        /\ (e = Len(s) \/ s[e + 1] \notin TagTokenClass)

\* the matches of s in order, each replaced by '#' + normalizeTag(token), with
\* the text before, between and after them as it is in s
WithTagsRewritten(st, s) ==
    LET starts == TagMatchStarts(s)
        k == Cardinality(starts)
        m == CHOOSE f \in [1..k -> starts] : \A i, j \in 1..k : i < j => f[i] < f[j]
        gap(j) == SubSeq(s, IF j = 0 THEN 1 ELSE TagMatchEnd(s, m[j]) + 1,
                            IF j = k THEN Len(s) ELSE m[j + 1] - 1)
    IN  gap(0) \o join([j \in 1..k |->
                <<"#">> \o normalizeTag(st, SubSeq(s, m[j] + 1, TagMatchEnd(s, m[j])))
                        \o gap(j)])

NormalizeTagFixedPoint ==
    op = "normalizeTag" => normalizeTag(settings, result) = result

----------------------------------------------------------------------------
(* Properties of the formatting normalizer *)

\* C7: every formatting step, and the composed normalize, is idempotent:
\* applied to its own output it returns that output unchanged.
FormattingIdempotent ==
    /\ op = "normalizeLineEndings" => normalizeLineEndings(result) = result
    /\ op = "removeMultipleBlankLines" =>
            removeMultipleBlankLines(settings, result) = result
    /\ op = "ensureTrailingNewline" => ensureTrailingNewline(settings, result) = result
    /\ op = "FormattingNormalizer.normalize" =>
            FormattingNormalizer_normalize(settings, result) = result

AllFormattingOn(st) ==
    st.normalizeFormatting /\ st.removeMultipleBlankLines /\ st.endWithNewline

HasTripleNewline(s) ==
    \E i \in 1..(Len(s) - 2) : s[i] = "\n" /\ s[i + 1] = "\n" /\ s[i + 2] = "\n"

\* C8: with the three formatting flags on, the output of normalize has no run
\* of three newlines and ends with one newline that no whitespace precedes; a
\* blank input gives a single newline, and 'line1\n\n\n\nline2' gives
\* 'line1\n\nline2\n'.
FormattedOutputShape ==
    (op = "FormattingNormalizer.normalize" /\ AllFormattingOn(settings)) =>
        /\ ~HasTripleNewline(result)
        /\ result # <<>>
        /\ result[Len(result)] = "\n"
        /\ Len(result) > 1 => result[Len(result) - 1] \notin Whitespace
        /\ (\A i \in 1..Len(input) : input[i] \in Whitespace) => result = <<"\n">>
        /\ input = FormatExample => result = <<"l","i","n","e","1","\n","\n","l","i","n","e","2","\n">>

\* C8 witness: an input with a run of three newlines inside and whitespace at
\* its end was normalized.
BlankRunAndTrailingSpaceNormalized ==
    /\ op = "FormattingNormalizer.normalize"
    /\ AllFormattingOn(settings)
    /\ input = <<"a", "\n", "\n", "\n", " ">>
    /\ result = <<"a", "\n">>

\* C9: with normalizeFormatting on, the output of normalize holds no
\* carriage return directly followed by a line feed.
OutputHasNoCRLF ==
    (op = "FormattingNormalizer.normalize" /\ settings.normalizeFormatting) =>
        ~HasCRLF(result)

----------------------------------------------------------------------------
(* Properties of the wikilink normalizer *)

PipeCount(s) == Cardinality({ i \in 1..Len(s) : s[i] = "|" })

\* the text before the first '|', or all of s when it holds none
BeforeFirstPipe(s) ==
    IF PipeCount(s) = 0 THEN s
    ELSE SubSeq(s, 1, (CHOOSE i \in 1..Len(s) :
                          s[i] = "|" /\ \A j \in 1..(i - 1) : s[j] # "|") - 1)

\* the text after the first '|'
AfterFirstPipe(s) == slice(s, Len(BeforeFirstPipe(s)) + 1)

\* the text after the last '/', or all of s when it holds none
FinalSegment(s) ==
    IF \A i \in 1..Len(s) : s[i] # "/" THEN s
    ELSE slice(s, CHOOSE i \in 1..Len(s) :
                    s[i] = "/" /\ \A j \in (i + 1)..Len(s) : s[j] # "/")

\* the final segment, or the whole path when the final segment is empty
FinalSegmentOrPath(s) == IF FinalSegment(s) # <<>> THEN FinalSegment(s) ELSE s

ShortestStyle(st) == st.safeWikilinkInsertion /\ st.wikilinkStyle = "shortest"

\* an inner text with one '|' and an alias that is not blank
HasOneAlias(s) == PipeCount(s) = 1 /\ trim(AfterFirstPipe(s)) # <<>>

AliasIsAllAfterFirstPipe ==
    (op = "normalizeWikilinkPath" /\ settings.safeWikilinkInsertion) =>
        /\ PipeCount(input) = 0 => PipeCount(result) = 0
        /\ trim(AfterFirstPipe(input)) # <<>> =>
                /\ PipeCount(result) > 0
                /\ AfterFirstPipe(result) = trim(AfterFirstPipe(input))

----------------------------------------------------------------------------
(* Properties of the plugin commands *)

NormalizeCommands == {"normalizeAllFiles", "normalizeFolder"}

DryRunCommands == {"dryRunCurrentFile", "dryRunEntireVault"}

\* C13: in normalizeAllFiles and normalizeFolder a failure on one document
\* does not end the batch: the documents of the enumerated list are taken up
\* once each, in the order of the list, and the command ends only when all
\* were; normalizedCount + errorCount is the number of documents taken up,
\* and errorCount is the number of documents that failed.
BatchAttemptsEveryDocument ==
    op \in NormalizeCommands =>
        /\ run.attempted = SubSeq(run.files, 1, Len(run.attempted))
        /\ run.normalizedCount + run.errorCount = Len(run.attempted)
        /\ run.errorCount = Cardinality(run.failed)
        /\ run.failed \subseteq Range(run.attempted)
        /\ run.pc = "done" =>
                /\ run.attempted = run.files
                /\ run.normalizedCount + run.errorCount = Len(run.files)

\* C13 witness: normalizeAllFiles ended after its first document failed and
\* a later one was rewritten.
BatchWentOnAfterFailure ==
    /\ op = "normalizeAllFiles"
    /\ run.pc = "done"
    /\ Len(run.files) >= 2
    /\ run.failed = {1}
    /\ run.errorCount = 1
    /\ run.normalizedCount = Len(run.files) - 1
    /\ vault.files[1].content = NonConformingDocument
    /\ vault.files[2].content \notin {ConformingDocument, NonConformingDocument}

CannotSaveNotice ==
    [text |-> "Cannot save vault lint report: 'Reports' exists and is not a folder."]

\* what a batch command tells the user at its end: its last notice and the
\* report files it created
AggregateOutcome == {notices[Len(notices)]} \cup Range(vault.reportFiles)

\* C14: in every batch command, dryRunEntireVault included, a document whose
\* read fails is caught and counted, the other documents are still
\* processed, and the number of failed documents is part of what the command
\* reports at its end, in its last notice or in its report. (A dry run that
\* stopped at a 'Reports' entry that is not a folder is left aside.)
FailedDocumentsAreReported ==
    (op \in NormalizeCommands \cup {"dryRunEntireVault"} /\ run.pc = "done"
            /\ run.failed # {} /\ CannotSaveNotice \notin Range(notices)) =>
        /\ run.attempted = run.files
        /\ \E outcome \in AggregateOutcome :
                /\ "errors" \in DOMAIN outcome
                /\ outcome.errors = Cardinality(run.failed)

DryRunChangesNoDocument ==
    [][op' \in DryRunCommands =>
            /\ editor' = editor
            /\ vault'.files = vault.files
            /\ vault'.reports # vault.reports =>
                    vault.reports = "absent" /\ vault'.reports = "folder"
            /\ vault'.reportFiles # vault.reportFiles =>
                    vault.reportFiles = <<>> /\ Len(vault'.reportFiles) = 1
            /\ UNCHANGED <<settings, activeFile>>]_vars

\* C16 witness: a dry run over a vault with a document the pipeline would
\* change has created the folder and its report, and the document is as it was.
DryRunReportedChangeWithoutWriting ==
    /\ op = "dryRunEntireVault"
    /\ run.pc = "done"
    /\ Len(vault.files) >= 1
    /\ vault.files[1].content = NonConformingDocument
    /\ run.failed = {}
    /\ vault.reports = "folder"
    /\ Len(vault.reportFiles) = 1
    /\ vault.reportFiles[1].filesWithChanges >= 1

----------------------------------------------------------------------------
(* Properties of the change reports *)

ReportedKinds == Range(result.changes)

\* C17: for identical original and normalized content generateChangeReport
\* returns an empty changes sequence, and the report holds the two contents
\* as they were given.
IdenticalContentHasNoChanges ==
    op = "generateChangeReport" =>
        /\ input[1] = input[2] => result.changes = <<>>
        /\ result.originalContent = input[1]
        /\ result.normalizedContent = input[2]

\* C17 witness: a report for two equal documents with a tag and a link.
IdenticalDocumentsReported ==
    /\ op = "generateChangeReport"
    /\ input = IdenticalPair
    /\ result.changes = <<>>
    /\ result.originalContent = IdenticalPair[1]
    /\ result.normalizedContent = IdenticalPair[1]

LineFeeds(s) == { i \in 1..Len(s) : s[i] = "\n" }

\* the position of the k-th line feed of s
LineFeedAt(s, k) ==
    CHOOSE i \in LineFeeds(s) : Cardinality({ j \in LineFeeds(s) : j <= i }) = k

\* the k-th line of s: the text between two line feeds, without the carriage
\* return that stands directly before the closing line feed
LineAt(s, k) ==
    LET first == IF k = 1 THEN 1 ELSE LineFeedAt(s, k - 1) + 1
        last == IF k = Cardinality(LineFeeds(s)) + 1 THEN Len(s)
                ELSE LET e == LineFeedAt(s, k) - 1
                     IN  IF e >= first /\ s[e] = "\r" THEN e - 1 ELSE e
    IN  SubSeq(s, first, last)

LinesOf(s) == [k \in 1..(Cardinality(LineFeeds(s)) + 1) |-> LineAt(s, k)]

\* the lines that hold a character that is not whitespace
ContentLines(s) ==
    SelectSeq(LinesOf(s), LAMBDA line : \E i \in 1..Len(line) : line[i] \notin Whitespace)

\* the lines that hold a character
NonEmptyLines(s) == SelectSeq(LinesOf(s), LAMBDA line : line # <<>>)

\* C18: formatting-normalized is reported exactly when the two contents
\* differ as strings and have the same lines once the blank and
\* whitespace-only lines are left out; so it is reported whenever the two
\* differ only in blank lines, in CRLF against LF line ends, or in a trailing
\* newline, as for 'line1\r\n\r\n\r\n\r\nline2' and 'line1\n\nline2\n'.
FormattingReportedIffSameContentLines ==
    op = "generateChangeReport" =>
        /\ "formatting-normalized" \in ReportedKinds
                <=> /\ input[1] # input[2]
                    /\ ContentLines(input[1]) = ContentLines(input[2])
        /\ (input[1] # input[2] /\ NonEmptyLines(input[1]) = NonEmptyLines(input[2]))
                => "formatting-normalized" \in ReportedKinds
        /\ input = LineStructurePair => result.changes = <<"formatting-normalized">>

\* C18 witness: the report for two documents that differ in line ends, blank
\* lines and the trailing newline.
LineStructureChangeReported ==
    /\ op = "generateChangeReport"
    /\ input = LineStructurePair
    /\ result.changes = <<"formatting-normalized">>

\* the place of a kind of change in the order of the report
ChangeRank(type) ==
    CASE type \in {"frontmatter-added", "frontmatter-normalized"} -> 1
      [] type = "formatting-normalized" -> 2
      [] type = "tags-normalized" -> 3
      [] type = "wikilinks-normalized" -> 4
      [] OTHER -> 0

\* C19: the changes of a report stand in a fixed order: the frontmatter
\* change (added or normalized), formatting-normalized, tags-normalized,
\* wikilinks-normalized; each kind occurs at most once, and frontmatter-added
\* and frontmatter-normalized never occur together.
ChangesInFixedOrder ==
    op = "generateChangeReport" =>
        /\ \A i \in 1..Len(result.changes) : ChangeRank(result.changes[i]) >= 1
        /\ \A i, j \in 1..Len(result.changes) :
                i < j => ChangeRank(result.changes[i]) < ChangeRank(result.changes[j])

\* C19 witness: a report with three kinds of change in that order.
HeaderTagLinkReported ==
    /\ op = "generateChangeReport"
    /\ input = HeaderTagLinkPair
    /\ result.changes = <<"frontmatter-added", "tags-normalized", "wikilinks-normalized">>

\* the kinds of change generateChangeReport finds between the documents of pair
KindsOf(pair) == Range(generateChangeReport(<<>>, <<>>, pair[1], pair[2]).changes)

\* C20: the four checks of generateChangeReport do not constrain one
\* another: whatever the formatting check found for the reported pair, there
\* is a pair with the same finding for which the tag check fires, one for
\* which the wikilink check fires and one for which a frontmatter check
\* fires; and there is a pair for which all four fire.
ChecksAreIndependent ==
    op = "generateChangeReport" =>
        /\ \A kinds \in { {"tags-normalized"}, {"wikilinks-normalized"},
                          {"frontmatter-added", "frontmatter-normalized"} } :
              \E pair \in ReportPairs :
                  /\ "formatting-normalized" \in KindsOf(pair)
                        <=> "formatting-normalized" \in ReportedKinds
                  /\ KindsOf(pair) \cap kinds # {}
        /\ \E pair \in ReportPairs :
              /\ KindsOf(pair) \cap {"frontmatter-added", "frontmatter-normalized"} # {}
              /\ {"formatting-normalized", "tags-normalized", "wikilinks-normalized"}
                      \subseteq KindsOf(pair)

\* What holds in place of C20: a formatting change is reported only for
\* documents with the same non-blank lines, which therefore have the same
\* tags and agree on whether they open with a header.
FormattingExcludesTagsAndAddedHeader ==
    (op = "generateChangeReport" /\ "formatting-normalized" \in ReportedKinds) =>
        /\ "tags-normalized" \notin ReportedKinds
        /\ "frontmatter-added" \notin ReportedKinds

ChangeKinds ==
    {"frontmatter-added", "frontmatter-normalized", "formatting-normalized",
     "tags-normalized", "wikilinks-normalized"}

\* the places of the reports of a list that have changes
ChangedAt(reports) == { i \in 1..Len(reports) : reports[i].changes # <<>> }

\* how often a kind of change occurs in the reports
Occurrences(reports, kind) ==
    Cardinality({ p \in (1..Len(reports)) \X (1..Cardinality(ChangeKinds)) :
                    p[2] <= Len(reports[p[1]].changes) /\ reports[p[1]].changes[p[2]] = kind })

\* the members of a set of places, in rising order
InOrder(places) ==
    [k \in 1..Cardinality(places) |->
        CHOOSE i \in places : Cardinality({ j \in places : j <= i }) = k]

\* C21: the vault report splits the reports into changed and unchanged, so
\* the two counts add up to the total; the summary has one line for each
\* kind that occurs, with the number of its occurrences, in the order of the
\* kind names; every changed report has its section; the list of unchanged
\* paths is printed only when there are at most 20 of them.
VaultReportCountsAndLists ==
    op = "formatVaultReportAsMarkdown" =>
        LET reports == ReportsFor(input)
            changed == ChangedAt(reports)
            unchanged == (1..Len(reports)) \ changed
        IN  /\ result.totalFilesProcessed = Len(reports)
            /\ result.filesWithChanges = Cardinality(changed)
            /\ result.filesAlreadyConforming = Cardinality(unchanged)
            /\ result.filesWithChanges + result.filesAlreadyConforming
                    = result.totalFilesProcessed
            /\ \A kind \in ChangeKinds :
                    LET lines == { i \in 1..Len(result.summary) : result.summary[i][1] = kind }
                    IN  IF Occurrences(reports, kind) = 0 THEN lines = {}
                        ELSE /\ Cardinality(lines) = 1
                             /\ \A i \in lines :
                                    result.summary[i][2] = Occurrences(reports, kind)
            /\ \A i, j \in 1..Len(result.summary) :
                    i < j => StringLess(TypeChars(result.summary[i][1]),
                                        TypeChars(result.summary[j][1]))
            /\ Len(result.filesModified) = Cardinality(changed)
            /\ \A k \in 1..Cardinality(changed) :
                    /\ result.filesModified[k].filePath = reports[InOrder(changed)[k]].filePath
                    /\ result.filesModified[k].changes = reports[InOrder(changed)[k]].changes
            /\ result.conformingListed => Cardinality(unchanged) <= 20
            /\ (Cardinality(unchanged) >= 1 /\ Cardinality(unchanged) <= 20) =>
                    /\ result.conformingListed
                    /\ result.conformingPaths
                            = [k \in 1..Cardinality(unchanged) |->
                                    reports[InOrder(unchanged)[k]].filePath]
            /\ ~result.conformingListed => result.conformingPaths = <<>>

\* C21 witness: a report over two changed files with five kinds of change
\* between them and 21 unchanged files, whose paths are not listed.
LongVaultReport ==
    /\ op = "formatVaultReportAsMarkdown"
    /\ result.filesWithChanges = 2
    /\ result.filesAlreadyConforming = 21
    /\ result.totalFilesProcessed = 23
    /\ Len(result.summary) = 5
    /\ result.summary[5] = <<"wikilinks-normalized", 2>>
    /\ ~result.conformingListed

----------------------------------------------------------------------------
(* Properties of the scanner *)

\* What holds of every reported range: it lies in the input with start < end,
\* its content is the input from start up to end, it opens with a fence and
\* closes with the next one, and the ranges follow one another.
CodeBlocksAreFencePairs ==
    op = "detectCodeBlocks" =>
        /\ \A k \in 1..Len(result) :
              LET r == result[k]
              IN  /\ 0 <= r.start /\ r.start < r.end /\ r.end <= Len(input)
                  /\ r.content = SubSeq(input, r.start + 1, r.end)
                  /\ startsWith(r.content, Fence)
                  /\ endsWith(r.content, Fence)
                  /\ indexOf(slice(r.content, 3), Fence) = Len(r.content) - 6
        /\ \A k \in 1..(Len(result) - 1) : result[k].end <= result[k + 1].start

\* C22: detectCodeBlocks reports a range only for a span that opens with
\* three backticks at the start of a line (at offset 0 or directly after a
\* newline) and runs through the next three backticks; the ranges do not
\* overlap, stand in the order of their starts, and each has start < end and
\* as content the input from start up to end.
CodeBlocksOpenAtLineStart ==
    /\ CodeBlocksAreFencePairs
    /\ op = "detectCodeBlocks" =>
          \A k \in 1..Len(result) :
              result[k].start = 0 \/ input[result[k].start] = "\n"

----------------------------------------------------------------------------
(* The change report against the pipeline *)

\* C23: the report is complete for the pipeline: whenever the pipeline's
\* output differs from the document it was given, the change report of the
\* two lists at least one change, so that the files a dry run counts as
\* "would be changed" are the files a normalization modifies.
ReportCompleteForPipeline ==
    (op = "normalize" /\ result # input) =>
        Len(generateChangeReport(fileName, fileName, input, result).changes) > 0

----------------------------------------------------------------------------
(* The settings the rule modules work under *)

\* C24: the configuration the rule modules use changes only when they are
\* built (the constructor, updateSettings): a document that a running
\* normalizeAllFiles or normalizeFolder normalizes after an edit in the
\* settings tab and before saveSettings has called updateSettings gets the
\* text the pipeline gives under the settings the modules were last built
\* with.
NormalizedUnderBuiltSettings ==
    [][ ( /\ InNormalizeLoop
          /\ run.i <= Len(run.files)
          /\ run'.normalizedCount = run.normalizedCount + 1 )
        => vault'.files[CurrentFile].content
              = NormalizationPipeline_normalize(built, vault.files[CurrentFile].content,
                                                vault.files[CurrentFile].name, today) ]_vars

====
